---- MODULE Spec2Model ----
(***************************************************************************)
(* A model of main.py of the YouTube downloader bot: the progress reporter *)
(* (ProgressHook), the session table (user_sessions), the format button    *)
(* handler, the download orchestration (process_download) and the admin    *)
(* configuration commands.                                                 *)
(*                                                                         *)
(* SpecHook   one ProgressHook receiving progress events                   *)
(* Spec       the router handlers and the background download tasks        *)
(* SpecSend   one orchestration over the space of library filenames        *)
(* SpecConfig the configuration commands and the configuration file        *)
(***************************************************************************)
EXTENDS Integers, Sequences, FiniteSets, TLC

VARIABLES
    \* ---- ProgressHook (main.py 76-140)
    now,                \* the wall clock, time.time(), in seconds
    last_update,        \* self.last_update
    message_id,         \* self.message_id (NoneId = None)
    last_progress_text, \* self.last_progress_text
    emits,              \* every send_message / edit_message_text the hook attempted
    hook_exc,           \* the exception a call of the hook let out, if any
    \* ---- router and orchestration (main.py 275-404)
    user_sessions,      \* the module-level dict user_sessions
    pending,            \* a format_button coroutine suspended at its acknowledgement
    tasks,              \* the process_download tasks created by asyncio.create_task
    last_reply,         \* the last text a handler sent back
    \* ---- configuration (main.py 35-62, 242-273)
    config_file,        \* the content of bot_config.json
    default_config      \* the module-level dict DEFAULT_CONFIG

hookVars == <<now, last_update, message_id, last_progress_text, emits, hook_exc>>
botVars == <<user_sessions, pending, tasks, last_reply>>
configVars == <<config_file, default_config>>
vars == <<now, last_update, message_id, last_progress_text, emits, hook_exc,
          user_sessions, pending, tasks, last_reply, config_file, default_config>>

Max(a, b) == IF a >= b THEN a ELSE b

(***************************************************************************)
(* ProgressHook                                                            *)
(***************************************************************************)

\* Bounds of the hook model.
MaxTime == 6
MaxEmits == 3

\* self.message_id = None
NoneId == 0

\* The window of the rate limit, in seconds.
ThrottleSeconds == 2

\* A key that the event dict does not carry.
Missing == "<missing>"

\* d.get(key, default)
Get(d, key, default) == IF d[key] = Missing THEN default ELSE d[key]

\* The percent strings the library may report (yt-dlp pads them).
PercentStrs == {"0.0%", " 50.0%", " 52.5%", "150.0%", "", "nan"}
SpeedStrs == {"1.00MiB/s"}

\* float(percent.replace('%', '')): a number (v, in tenths of a percent), nan,
\* or ValueError ("err").
ParseFloat(s) ==
    CASE s = "0.0%" -> [kind |-> "num", v |-> 0]
      [] s = "0%" -> [kind |-> "num", v |-> 0]
      [] s = " 50.0%" -> [kind |-> "num", v |-> 500]
      [] s = " 52.5%" -> [kind |-> "num", v |-> 525]
      [] s = "150.0%" -> [kind |-> "num", v |-> 1500]
      [] s = "nan" -> [kind |-> "nan", v |-> 0]
      [] OTHER -> [kind |-> "err", v |-> 0]

\* The text of one progress message: the bar, or the plain fallback.
NoText == [tpl |-> "", filled |-> 0, empty |-> 0, percent |-> "", speed |-> "", eta |-> ""]
FinishedText == [tpl |-> "finished", filled |-> 0, empty |-> 0, percent |-> "", speed |-> "", eta |-> ""]

\* The try block that builds the bar raises when float() raises (ValueError) or
\* when int() is given nan.
BarRaises(percent) == ParseFloat(percent).kind # "num"

\* What a call of the hook lets out: nothing, or an exception.
NoHookExc == ""
RaisedText == [tpl |-> "raise", filled |-> 0, empty |-> 0, percent |-> "", speed |-> "", eta |-> ""]

BarExceptNothing(e) == FALSE

\* The bare except: of the bar (line 105) catches whatever the try block raises.
BarExcept(e) == TRUE

\* except Exception as e: around send_message / edit_message_text (127, 139)
ChatExcept(e) == e \in {"TelegramError", "ValueError"}

\* The progress text of a 'downloading' event (RaisedText when building it
\* raises out of the hook).
Render(d) ==
    LET percent == Get(d, "_percent_str", "0%")
        speed == Get(d, "_speed_str", "N/A")
        eta == Get(d, "_eta_str", "N/A")
        filled_blocks == ParseFloat(percent).v \div 50
    IN  IF BarRaises(percent) /\ ~BarExcept("ValueError")
        THEN RaisedText
        ELSE IF BarRaises(percent)
        THEN [tpl |-> "plain", filled |-> 0, empty |-> 0,
              percent |-> percent, speed |-> speed, eta |-> eta]
        ELSE [tpl |-> "bar", filled |-> Max(0, filled_blocks), empty |-> Max(0, 20 - filled_blocks),
              percent |-> percent, speed |-> speed, eta |-> eta]

DownloadingEvents ==
    [status : {"downloading"}, _percent_str : PercentStrs \cup {Missing},
     _speed_str : SpeedStrs, _eta_str : {Missing}]

ThrottledOneSecond(current_time, last) == current_time - last < 1

\* if current_time - self.last_update < 2: return
Throttled(current_time, last) == current_time - last < ThrottleSeconds

TextChangedAlways(text, last) == TRUE

\* if progress_text != self.last_progress_text
TextChanged(text, last) == text # last

\* The id of the message a successful send_message creates.
NewMessageId == 1 + Cardinality({i \in 1..Len(emits) : emits[i].via = "send" /\ emits[i].ok})

\* One send_message / edit_message_text: msg is the message edited or created.
Attempt(via, text, ok) ==
    [at |-> now, via |-> via, text |-> text, ok |-> ok,
     on |-> IF text = FinishedText THEN "finished" ELSE "downloading",
     msg |-> IF via = "edit" THEN message_id ELSE IF ok THEN NewMessageId ELSE NoneId]

\* What the hook lets out of a chat call that failed or not
ChatCall(ok) == IF ~ok /\ ~ChatExcept("TelegramError") THEN "TelegramError" ELSE hook_exc

NoHandleAlways(id) == TRUE

\* if self.message_id is None
NoHandle(id) == id = NoneId

\* __call__ on a 'downloading' event that the rate limit suppresses
HookThrottled(d) ==
    /\ Throttled(now, last_update)
    /\ UNCHANGED vars

\* __call__ on a 'downloading' event past the rate limit whose text is unchanged
HookSameText(d) ==
    /\ ~Throttled(now, last_update)
    /\ ~TextChanged(Render(d), last_progress_text)
    /\ last_update' = now
    /\ UNCHANGED <<now, message_id, last_progress_text, emits, hook_exc>>
    /\ UNCHANGED <<botVars, configVars>>

\* __call__ on a 'downloading' event that is emitted; ok is whether the chat call succeeds
HookEmit(d, ok) ==
    /\ Len(emits) < MaxEmits
    /\ ~Throttled(now, last_update)
    /\ TextChanged(Render(d), last_progress_text)
    /\ last_update' = now
    /\ IF Render(d) = RaisedText
       THEN /\ hook_exc' = "ValueError"
            /\ UNCHANGED <<message_id, last_progress_text, emits>>
       ELSE /\ last_progress_text' = Render(d)
            /\ hook_exc' = ChatCall(ok)
            /\ IF NoHandle(message_id)
               THEN /\ emits' = Append(emits, Attempt("send", Render(d), ok))
                    /\ message_id' = IF ok THEN NewMessageId ELSE message_id
               ELSE /\ emits' = Append(emits, Attempt("edit", Render(d), ok))
                    /\ UNCHANGED message_id
    /\ UNCHANGED now
    /\ UNCHANGED <<botVars, configVars>>

\* __call__ on a 'finished' event with a status message
HookFinished(ok) ==
    /\ Len(emits) < MaxEmits
    /\ message_id # NoneId
    /\ emits' = Append(emits, Attempt("edit", FinishedText, ok))
    /\ hook_exc' = ChatCall(ok)
    /\ UNCHANGED <<now, last_update, message_id, last_progress_text>>
    /\ UNCHANGED <<botVars, configVars>>

\* __call__ on a 'finished' event with no status message: nothing happens
HookFinishedNoMessage ==
    /\ message_id = NoneId
    /\ UNCHANGED vars

\* time passes between two events
Tick ==
    /\ now < MaxTime
    /\ now' = now + 1
    /\ UNCHANGED <<last_update, message_id, last_progress_text, emits, hook_exc>>
    /\ UNCHANGED <<botVars, configVars>>

InitHook ==
    /\ now = ThrottleSeconds
    /\ last_update = 0
    /\ message_id = NoneId
    /\ last_progress_text = NoText
    /\ emits = <<>>
    /\ hook_exc = NoHookExc

NextHook ==
    \/ \E d \in DownloadingEvents : HookThrottled(d)
    \/ \E d \in DownloadingEvents : HookSameText(d)
    \/ \E d \in DownloadingEvents, ok \in BOOLEAN : HookEmit(d, ok)
    \/ \E ok \in BOOLEAN : HookFinished(ok)
    \/ HookFinishedNoMessage
    \/ Tick

(***************************************************************************)
(* Session table, format button and download orchestration                 *)
(***************************************************************************)

\* Bounds of the router model.
MaxTasks == 2
MaxPending == 1
\* The longest library filename, in dot-separated parts (SpecSend).
MaxParts == 3

Users == {101, 102}
SendUsers == {101}

EmptyDict == [k \in {} |-> 0]

\* d with d[k] = v
Put(d, k, v) == [x \in DOMAIN d \cup {k} |-> IF x = k THEN v ELSE d[x]]

\* d without the key k
Del(d, k) == [x \in DOMAIN d \ {k} |-> d[x]]

\* A message text, as the pieces that the handler looks for or passes on.
UrlA == <<"https://", "youtu.be", "/a">>
UrlB == <<"https://www.", "youtube.com", "/watch?v=b">>
NotUrl == <<"hello">>
Texts == {UrlA, UrlB, NotUrl}

\* sub in text
Contains(text, sub) == \E i \in 1..Len(text) : text[i] = sub

\* "youtube.com" in text or "youtu.be" in text
IsYouTubeUrl(text) == Contains(text, "youtube.com") \/ Contains(text, "youtu.be")

\* The catalogue of formats: key -> label.
FORMATS ==
    [k \in {"best", "best[height<=720]", "best[height<=480]", "bestaudio/best", "mp3"} |->
        CASE k = "best" -> "Best Quality"
          [] k = "best[height<=720]" -> "720p"
          [] k = "best[height<=480]" -> "480p"
          [] k = "bestaudio/best" -> "Audio Only"
          [] k = "mp3" -> "MP3 Audio"]

\* The format keys the model presses.
FormatKeys == {"best", "mp3"}

\* callback_data=f"format_{key}", as query.data.split('_') sees it
CallbackData(key) == <<"format", key>>

\* query.data.split('_')[1]
FormatKeyOf(data) == data[2]

\* FORMATS.get(format_key, format_key)
FormatName(format_key) == IF format_key \in DOMAIN FORMATS THEN FORMATS[format_key] ELSE format_key

Reply(text, arg) == [text |-> text, arg |-> arg]
NoReply == Reply("", <<>>)
SessionExpiredReply == Reply("Session expired. Please send the URL again.", <<>>)
SelectedReply(format_name) == Reply("Selected: {format_name}\nStarting download...", <<format_name>>)

\* The synchronous library call of a task holds the only thread of the event loop:
\* no handler and no other task runs until it returns.
LoopFree == \A t \in 1..Len(tasks) : tasks[t].pc # "in_library"

\* handle_message; its two replies (the prompt to resend, the format keyboard)
\* change no state and are left out
HandleMessage(u, text) ==
    /\ LoopFree
    /\ IF ~IsYouTubeUrl(text)
       THEN UNCHANGED user_sessions
       ELSE user_sessions' = Put(user_sessions, u, [url |-> text, format |-> Missing])
    /\ UNCHANGED <<pending, tasks, last_reply>>
    /\ UNCHANGED <<hookVars, configVars>>

\* format_button up to its acknowledgement edit_message_text (lines 300-315);
\* cap bounds the orchestrations of the model. A query.answer() that raises ends
\* the handler before it has read or written anything, and is left out.
FormatButton(u, data, cap) ==
    /\ LoopFree
    /\ Len(tasks) + Cardinality(pending) < cap
    /\ Cardinality(pending) < MaxPending
    /\ LET format_key == FormatKeyOf(data) IN
       IF u \notin DOMAIN user_sessions
       THEN /\ last_reply' = SessionExpiredReply
            /\ UNCHANGED <<user_sessions, pending>>
       ELSE /\ user_sessions' = [user_sessions EXCEPT ![u].format = format_key]
            /\ pending' = pending \cup
                 {[user_id |-> u, url |-> user_sessions[u].url, format_key |-> format_key]}
            /\ UNCHANGED last_reply
    /\ UNCHANGED tasks
    /\ UNCHANGED <<hookVars, configVars>>

\* The exceptions of the model: a class and str(e).
Exc(cls, detail) == [cls |-> cls, detail |-> detail]
NoExc == Exc("", "")

\* isinstance(e, cls): every class of the model derives from Exception
IsInstance(e, cls) == cls = "Exception" \/ e.cls = cls

\* A process_download coroutine as asyncio.create_task schedules it: its
\* arguments, where it stands, the options and the filename it computed, the
\* exception its try block caught, the chat calls it made and how they ended.
NewTask(user_id, url, format_key) ==
    [user_id |-> user_id, url |-> url, format_key |-> format_key, pc |-> "scheduled",
     lib_url |-> <<>>, ydl_format |-> "", postprocessors |-> FALSE, lib_filename |-> <<>>,
     mp3_exists |-> FALSE,
     filename |-> <<>>, exc |-> NoExc, calls |-> <<>>, sent |-> "", delivered |-> ""]

\* format_button from its acknowledgement on (lines 315-318): the edit raises and
\* the handler ends there, or it returns and the orchestration is started
FormatButtonAck(p, ok) ==
    /\ LoopFree
    /\ p \in pending
    /\ pending' = pending \ {p}
    /\ IF ok
       THEN /\ last_reply' = SelectedReply(FormatName(p.format_key))
            /\ tasks' = Append(tasks, NewTask(p.user_id, p.url, p.format_key))
       ELSE UNCHANGED <<last_reply, tasks>>
    /\ UNCHANGED user_sessions
    /\ UNCHANGED <<hookVars, configVars>>

DownloadArgsFromSession(T, sessions) ==
    IF T.user_id \in DOMAIN sessions
    THEN [url |-> sessions[T.user_id].url, format_key |-> sessions[T.user_id].format]
    ELSE [url |-> T.url, format_key |-> T.format_key]

\* The url and format_key that process_download works with: its own parameters
\* (line 320), whatever the session table holds by then.
DownloadArgs(T, sessions) == [url |-> T.url, format_key |-> T.format_key]

\* process_download from its start to the library call (lines 322-351)
TaskStart(t) ==
    /\ LoopFree
    /\ tasks[t].pc = "scheduled"
    /\ LET a == DownloadArgs(tasks[t], user_sessions) IN
       tasks' = [tasks EXCEPT ![t].pc = "in_library",
                              ![t].lib_url = a.url,
                              ![t].ydl_format = IF a.format_key = "mp3"
                                                THEN "bestaudio/best" ELSE a.format_key,
                              ![t].postprocessors = (a.format_key = "mp3")]
    /\ UNCHANGED <<user_sessions, pending, last_reply>>
    /\ UNCHANGED <<hookVars, configVars>>

Mp3SiblingNoSuffix(filename) ==
    IF Len(filename) >= 2 THEN SubSeq(filename, 1, Len(filename) - 1) ELSE filename

\* filename.rsplit('.', 1)[0] + '.mp3', a filename being its dot-separated parts
Mp3Sibling(filename) ==
    IF Len(filename) >= 2
    THEN Append(SubSeq(filename, 1, Len(filename) - 1), "mp3")
    ELSE Append(filename, "mp3")

\* filename.endswith('.' + ext)
EndsWith(filename, ext) == Len(filename) >= 2 /\ filename[Len(filename)] = ext

ClassifyNoMkv(filename) ==
    IF EndsWith(filename, "mp3") THEN "send_audio"
    ELSE IF \E ext \in {"mp4", "webm"} : EndsWith(filename, ext) THEN "send_video"
    ELSE "send_document"

\* The send call chosen for the file (lines 362-379).
Classify(filename) ==
    IF EndsWith(filename, "mp3") THEN "send_audio"
    ELSE IF \E ext \in {"mp4", "webm", "mkv"} : EndsWith(filename, ext) THEN "send_video"
    ELSE "send_document"

FileCalls == {"send_audio", "send_video", "send_document"}

Call(call, arg) == [call |-> call, arg |-> arg]

ErrorMsgAlwaysDownloadFailed(e) ==
    [text |-> "Download failed. The video may be restricted or unavailable.", detail |-> ""]

\* error_msg as the except clauses of process_download set it (lines 381-386)
ErrorMsg(e) ==
    IF IsInstance(e, "DownloadError")
    THEN [text |-> "Download failed. The video may be restricted or unavailable.", detail |-> ""]
    ELSE [text |-> "An error occurred: {str(e)}", detail |-> e.detail]

\* The except clauses around the delivery of the error message (line 399).
ErrorDeliveryExceptNone == {}
ErrorDeliveryExcept == {"Exception"}

RemoveSessionNever(sessions, user_id) == sessions

\* if user_id in user_sessions: del user_sessions[user_id]
RemoveSession(sessions, user_id) ==
    IF user_id \in DOMAIN sessions THEN Del(sessions, user_id) ELSE sessions

\* An exception raised inside the try block: the except clauses set error_msg and
\* the error message is sent (lines 381-398); the task is then at that await.
Raised(T, e) ==
    [T EXCEPT !.exc = e, !.pc = "await_error",
              !.calls = Append(T.calls, Call("send_message", ErrorMsg(e)))]

\* The library call returns (lines 351-379): the filename is settled, the file is
\* opened and the send call is made; the task is then at that await.
LibraryReturn(t, fn, exists, opened) ==
    /\ tasks[t].pc = "in_library"
    /\ LET T == tasks[t]
           mp3_exists == DownloadArgs(T, user_sessions).format_key = "mp3" /\ exists
           filename == IF mp3_exists THEN Mp3Sibling(fn) ELSE fn
           U == [T EXCEPT !.lib_filename = fn, !.mp3_exists = mp3_exists, !.filename = filename]
       IN  tasks' = [tasks EXCEPT ![t] =
                IF opened
                THEN [U EXCEPT !.pc = "await_send",
                               !.calls = Append(T.calls, Call(Classify(filename), filename))]
                ELSE Raised(U, Exc("OSError", "open"))]
    /\ UNCHANGED <<user_sessions, pending, last_reply>>
    /\ UNCHANGED <<hookVars, configVars>>

\* The library call raises (line 351).
LibraryRaise(t, e) ==
    /\ tasks[t].pc = "in_library"
    /\ tasks' = [tasks EXCEPT ![t] = Raised(tasks[t], e)]
    /\ UNCHANGED <<user_sessions, pending, last_reply>>
    /\ UNCHANGED <<hookVars, configVars>>

\* The send of the file completes (lines 363-391): on success the session is
\* removed and the task returns; a failure is an exception inside the try block.
SendFileDone(t, ok) ==
    /\ LoopFree
    /\ tasks[t].pc = "await_send"
    /\ IF ok
       THEN /\ tasks' = [tasks EXCEPT ![t].pc = "done", ![t].sent = "ok"]
            /\ user_sessions' = RemoveSession(user_sessions, tasks[t].user_id)
       ELSE /\ tasks' = [tasks EXCEPT ![t] =
                    Raised([tasks[t] EXCEPT !.sent = "failed"], Exc("TelegramError", "send"))]
            /\ UNCHANGED user_sessions
    /\ UNCHANGED <<pending, last_reply>>
    /\ UNCHANGED <<hookVars, configVars>>

\* The send of the error message completes (lines 394-404).
SendErrorDone(t, ok) ==
    /\ LoopFree
    /\ tasks[t].pc = "await_error"
    /\ IF ok \/ \E cls \in ErrorDeliveryExcept : IsInstance(Exc("TelegramError", "send"), cls)
       THEN /\ tasks' = [tasks EXCEPT ![t].pc = "done",
                                      ![t].delivered = IF ok THEN "ok" ELSE "failed"]
            /\ user_sessions' = RemoveSession(user_sessions, tasks[t].user_id)
       ELSE /\ tasks' = [tasks EXCEPT ![t].pc = "raised", ![t].delivered = "failed"]
            /\ UNCHANGED user_sessions
    /\ UNCHANGED <<pending, last_reply>>
    /\ UNCHANGED <<hookVars, configVars>>

LibExcs == {Exc("DownloadError", "library"), Exc("Exception", "library")}

\* The filenames the library reports in Spec.
LibFilenames == {<<"v", "webm">>}

Parts == {"v", "mp3", "mp4", "webm", "mkv", "MP3", ""}

RECURSIVE SeqsUpTo(_)
SeqsUpTo(n) ==
    IF n = 0 THEN {<<>>}
    ELSE LET S == SeqsUpTo(n - 1) IN S \cup {Append(q, x) : q \in S, x \in Parts}

\* The filenames the library reports in SpecSend.
AllFilenames == SeqsUpTo(MaxParts) \ {<<>>}

\* The tasks that are inside the library call.
InLibrary == {t \in 1..Len(tasks) : tasks[t].pc = "in_library"}

InitBot ==
    /\ user_sessions = EmptyDict
    /\ pending = {}
    /\ tasks = <<>>
    /\ last_reply = NoReply

Next ==
    \/ \E u \in Users, text \in Texts : HandleMessage(u, text)
    \/ \E u \in Users, k \in FormatKeys : FormatButton(u, CallbackData(k), MaxTasks)
    \/ \E p \in pending, ok \in BOOLEAN : FormatButtonAck(p, ok)
    \/ \E t \in 1..Len(tasks) : TaskStart(t)
    \/ \E t \in InLibrary : \E fn \in LibFilenames, exists \in BOOLEAN :
          LibraryReturn(t, fn, exists, TRUE)
    \/ \E t \in InLibrary, e \in LibExcs : LibraryRaise(t, e)
    \/ \E t \in 1..Len(tasks), ok \in BOOLEAN : SendFileDone(t, ok)
    \/ \E t \in 1..Len(tasks), ok \in BOOLEAN : SendErrorDone(t, ok)

NextSend ==
    \/ \E u \in SendUsers : HandleMessage(u, UrlA)
    \/ \E u \in SendUsers, k \in FormatKeys : FormatButton(u, CallbackData(k), 1)
    \/ \E p \in pending : FormatButtonAck(p, TRUE)
    \/ \E t \in 1..Len(tasks) : TaskStart(t)
    \/ \E t \in InLibrary : \E fn \in AllFilenames, exists, opened \in BOOLEAN :
          LibraryReturn(t, fn, exists, opened)
    \/ \E t \in InLibrary, e \in LibExcs : LibraryRaise(t, e)
    \/ \E t \in 1..Len(tasks), ok \in BOOLEAN : SendFileDone(t, ok)
    \/ \E t \in 1..Len(tasks), ok \in BOOLEAN : SendErrorDone(t, ok)

(***************************************************************************)
(* Configuration store and the admin commands                              *)
(***************************************************************************)

\* The admin allow-list read from the environment at start-up.
ADMIN_IDS == {101}

\* A channel name or a command argument, as its leading character and the rest.
ChDefault == <<"@", "default">>
ChFoo == <<"@", "foo">>
ChBar == <<"@", "bar">>
NoAt == <<"f", "oo">>

\* The default required channel read from the environment at start-up.
REQUIRED_CHANNEL == ChDefault

\* DEFAULT_CONFIG as the module defines it
DEFAULT_CONFIG == [k \in {"required_channel"} |-> REQUIRED_CHANNEL]

\* bot_config.json: absent, not parsable as a JSON object, or a JSON object.
File(state, content) == [state |-> state, content |-> content]
AbsentFile == File("absent", EmptyDict)
CorruptFile == File("corrupt", EmptyDict)

\* The JSON objects the file may hold when the process starts.
StoredDicts ==
    { [k \in D |-> IF k = "required_channel" THEN c ELSE <<"o", "ps">>] :
        D \in SUBSET {"required_channel", "owner"}, c \in {ChDefault, ChFoo} }
InitialFiles == {AbsentFile, CorruptFile} \cup {File("json", d) : d \in StoredDicts}

\* How a write of the file ends: written, open() raises (file untouched), or the
\* write raises after open() truncated the file.
SaveOutcomes == {"ok", "open_fails", "write_fails"}

SaveConfigKnownKeysOnly(file, config, w) ==
    CASE w = "ok" -> File("json", [k \in DOMAIN config \cap {"required_channel"} |-> config[k]])
      [] w = "open_fails" -> file
      [] w = "write_fails" -> CorruptFile

\* save_config: the file after it (an exception is logged and swallowed)
SaveConfig(file, config, w) ==
    CASE w = "ok" -> File("json", config)
      [] w = "open_fails" -> file
      [] w = "write_fails" -> CorruptFile

BackfillNothing(config, defaults) == config

\* for key, value in DEFAULT_CONFIG.items(): if key not in config: config[key] = value
Backfill(config, defaults) ==
    [k \in DOMAIN config \cup DOMAIN defaults |-> IF k \in DOMAIN config THEN config[k] ELSE defaults[k]]

\* load_config: the dict returned, whether it is the DEFAULT_CONFIG object
\* itself, and the file afterwards (w is the outcome of the write it may make)
LoadConfig(file, defaults, w) ==
    IF file.state = "json"
    THEN [config |-> Backfill(file.content, defaults), is_default |-> FALSE, file |-> file]
    ELSE IF file.state = "corrupt"
    THEN [config |-> defaults, is_default |-> TRUE, file |-> file]
    ELSE [config |-> defaults, is_default |-> TRUE, file |-> SaveConfig(file, defaults, w)]

\* config.get('required_channel', REQUIRED_CHANNEL)
RequiredChannelOf(config) ==
    IF "required_channel" \in DOMAIN config THEN config["required_channel"] ELSE REQUIRED_CHANNEL

PermissionDeniedReply == Reply("You don't have permission to use this command.", <<>>)
UsageReply == Reply("Usage: /setchannel @channelusername", <<>>)
MustStartWithAtReply == Reply("Channel username must start with @", <<>>)
ChannelSetReply(channel) == Reply("Required channel set to {channel}", channel)
CurrentChannelReply(channel) == Reply("Current required channel: {required_channel}", channel)
WelcomeReply(channel) == Reply("You must join our channel {required_channel} to use this bot", channel)

IsAdminAnyone(user_id) == TRUE

\* user_id in ADMIN_IDS
IsAdmin(user_id) == user_id \in ADMIN_IDS

\* channel.startswith('@')
StartsWithAt(channel) == Len(channel) >= 1 /\ channel[1] = "@"

\* set_channel_command; w1 and w2 are the outcomes of the writes of load_config
\* and of save_config
SetChannelCommand(u, args, w1, w2) ==
    /\ IF ~IsAdmin(u)
       THEN /\ last_reply' = PermissionDeniedReply
            /\ UNCHANGED <<config_file, default_config>>
       ELSE IF args = <<>>
       THEN /\ last_reply' = UsageReply
            /\ UNCHANGED <<config_file, default_config>>
       ELSE IF ~StartsWithAt(args[1])
       THEN /\ last_reply' = MustStartWithAtReply
            /\ UNCHANGED <<config_file, default_config>>
       ELSE LET channel == args[1]
                L == LoadConfig(config_file, default_config, w1)
                config == Put(L.config, "required_channel", channel)
            IN  /\ default_config' = IF L.is_default THEN config ELSE default_config
                /\ config_file' = SaveConfig(L.file, config, w2)
                /\ last_reply' = ChannelSetReply(channel)
    /\ UNCHANGED <<user_sessions, pending, tasks>>
    /\ UNCHANGED hookVars

\* get_channel_command
GetChannelCommand(u, w) ==
    /\ IF ~IsAdmin(u)
       THEN /\ last_reply' = PermissionDeniedReply
            /\ UNCHANGED config_file
       ELSE LET L == LoadConfig(config_file, default_config, w)
            IN  /\ config_file' = L.file
                /\ last_reply' = CurrentChannelReply(RequiredChannelOf(L.config))
    /\ UNCHANGED default_config
    /\ UNCHANGED <<user_sessions, pending, tasks>>
    /\ UNCHANGED hookVars

\* start (check_membership reads the channel the same way)
StartCommand(u, w) ==
    /\ LET L == LoadConfig(config_file, default_config, w)
       IN  /\ config_file' = L.file
           /\ last_reply' = WelcomeReply(RequiredChannelOf(L.config))
    /\ UNCHANGED default_config
    /\ UNCHANGED <<user_sessions, pending, tasks>>
    /\ UNCHANGED hookVars

ArgLists == {<<>>, <<ChFoo>>, <<ChBar>>, <<NoAt>>}

NextConfig ==
    \/ \E u \in Users, args \in ArgLists, w1, w2 \in SaveOutcomes : SetChannelCommand(u, args, w1, w2)
    \/ \E u \in Users, w \in SaveOutcomes : GetChannelCommand(u, w)
    \/ \E u \in Users, w \in SaveOutcomes : StartCommand(u, w)
    \/ \E u \in Users : HandleMessage(u, UrlA)

(***************************************************************************)
(* Specifications                                                          *)
(***************************************************************************)

Init ==
    /\ InitHook
    /\ InitBot
    /\ config_file = AbsentFile
    /\ default_config = DEFAULT_CONFIG

\* The configuration file is whatever an earlier run or an operator left.
InitConfig ==
    /\ InitHook
    /\ InitBot
    /\ config_file \in InitialFiles
    /\ default_config = DEFAULT_CONFIG

SpecHook == Init /\ [][NextHook]_vars
Spec == Init /\ [][Next]_vars
SpecSend == Init /\ [][NextSend]_vars
SpecConfig == InitConfig /\ [][NextConfig]_vars

(***************************************************************************)
(* Claims                                                                  *)
(***************************************************************************)

FileCallsOf(T) == SelectSeq(T.calls, LAMBDA c : c.call \in FileCalls)
ErrorCallsOf(T) == SelectSeq(T.calls, LAMBDA c : c.call = "send_message")
Returned == {"done", "raised"}

\* C1: whenever a run of process_download returns, on any exit path and
\* whatever ran at its await points, user_sessions has no entry for its user_id
\* at that moment.
C1_SessionRemovedAtReturn ==
    [][\A t \in 1..Len(tasks) :
          (tasks[t].pc \notin Returned /\ tasks'[t].pc \in Returned)
              => tasks[t].user_id \notin DOMAIN user_sessions']_vars

\* A run returned after the delivery of its error message failed, while the
\* same user had submitted another URL and started another download.
C1_Witness ==
    \E t, t2 \in 1..Len(tasks) :
        /\ tasks[t].pc = "done" /\ tasks[t].delivered = "failed"
        /\ tasks[t2].user_id = tasks[t].user_id /\ tasks[t2].url # tasks[t].url
        /\ tasks[t].user_id \notin DOMAIN user_sessions

\* C2: a format_button that finds the session of u sets it to {url, f}, and when
\* it is over an orchestration has been started with exactly (u, url, f); a
\* format_button that finds no session reports 'Session expired', starts nothing
\* and leaves the session table as it was.
C2_SessionFlow ==
    [][/\ \A p \in pending' \ pending :
            /\ p.url = user_sessions[p.user_id].url
            /\ user_sessions'[p.user_id] = [url |-> p.url, format |-> p.format_key]
       /\ \A p \in pending \ pending' :
            /\ Len(tasks') = Len(tasks) + 1
            /\ tasks'[Len(tasks')].user_id = p.user_id
            /\ tasks'[Len(tasks')].url = p.url
            /\ tasks'[Len(tasks')].format_key = p.format_key
       /\ \A u \in Users, k \in FormatKeys :
            (u \notin DOMAIN user_sessions /\ FormatButton(u, CallbackData(k), MaxTasks))
                => /\ last_reply' = SessionExpiredReply
                   /\ UNCHANGED <<user_sessions, pending, tasks>>]_vars

\* C3 as stated: any two send/edit attempts of the hook are at least 2 seconds
\* apart.
C3_OneAttemptPerWindow ==
    \A i, j \in 1..Len(emits) : i < j => emits[j].at - emits[i].at >= ThrottleSeconds

\* C3 amended: any two send/edit attempts made for 'downloading' events are at
\* least 2 seconds apart (the edit of a 'finished' event is not rate limited).
C3_DownloadingAttemptsPerWindow ==
    \A i, j \in 1..Len(emits) :
        (i < j /\ emits[i].on = "downloading" /\ emits[j].on = "downloading")
            => emits[j].at - emits[i].at >= ThrottleSeconds

\* Two 'downloading' attempts exactly 2 seconds apart with a 'finished' one between.
C3_Witness ==
    /\ Len(emits) = 3
    /\ emits[1].on = "downloading" /\ emits[2].on = "finished" /\ emits[3].on = "downloading"
    /\ emits[3].at - emits[1].at = ThrottleSeconds

\* C4 as stated: no two successive send/edit attempts carry the same text.
C4_NoConsecutiveIdentical ==
    \A i \in 1..(Len(emits) - 1) : emits[i].text # emits[i + 1].text

\* C4 amended: two successive attempts carry the same text only when both are
\* for 'finished' events, and a 'downloading' attempt never carries the text of
\* the 'downloading' attempt before it.
C4_NoIdenticalDownloadingTexts ==
    /\ \A i \in 1..(Len(emits) - 1) :
          emits[i].text = emits[i + 1].text
              => emits[i].on = "finished" /\ emits[i + 1].on = "finished"
    /\ \A i, j \in 1..Len(emits) :
          (/\ i < j /\ emits[i].on = "downloading" /\ emits[j].on = "downloading"
           /\ \A k \in (i + 1)..(j - 1) : emits[k].on = "finished")
              => emits[i].text # emits[j].text

\* Two 'downloading' attempts with a 'finished' one between, after which an event
\* with the last text came past the rate limit and was suppressed.
C4_Witness ==
    /\ Len(emits) = 3
    /\ emits[1].on = "downloading" /\ emits[2].on = "finished" /\ emits[3].on = "downloading"
    /\ last_update > emits[3].at

\* C5: a setchannel (any arguments) or getchannel of a user outside ADMIN_IDS
\* replies with the permission-denied text and leaves the configuration file,
\* the default configuration and the session table as they were.
C5_NonAdminChangesNothing ==
    [][\A u \in Users \ ADMIN_IDS :
          (\/ \E args \in ArgLists, w1, w2 \in SaveOutcomes : SetChannelCommand(u, args, w1, w2)
           \/ \E w \in SaveOutcomes : GetChannelCommand(u, w))
              => /\ last_reply' = PermissionDeniedReply
                 /\ UNCHANGED <<config_file, default_config, user_sessions>>]_vars

\* A non-admin was denied after an admin had set the channel, sessions existing.
C5_Witness ==
    /\ last_reply = PermissionDeniedReply
    /\ config_file.state = "json"
    /\ RequiredChannelOf(config_file.content) = ChBar
    /\ 102 \in DOMAIN user_sessions

\* The library call returned and the file could be opened.
ReachedSend(T) == T.filename # <<>> /\ T.exc # Exc("OSError", "open")

\* C6: a run that reaches the send step makes exactly one file send call, on its
\* output filename: send_audio iff the name ends in .mp3, send_video iff it ends
\* in .mp4, .webm or .mkv, send_document iff neither.
C6_OneSendByExtension ==
    \A t \in 1..Len(tasks) :
        LET T == tasks[t]
            F == FileCallsOf(T)
            audio == EndsWith(T.filename, "mp3")
            video == \E ext \in {"mp4", "webm", "mkv"} : EndsWith(T.filename, ext)
        IN  /\ Len(F) <= 1
            /\ ReachedSend(T) =>
                 /\ Len(F) = 1
                 /\ F[1].arg = T.filename
                 /\ F[1].call = "send_audio" <=> audio
                 /\ F[1].call = "send_video" <=> video
                 /\ F[1].call = "send_document" <=> ~audio /\ ~video

\* A file named like x.y.mkv went out as a video.
C6_Witness ==
    \E t \in 1..Len(tasks) :
        /\ tasks[t].sent = "ok"
        /\ Len(tasks[t].filename) = 3 /\ EndsWith(tasks[t].filename, "mkv")
        /\ FileCallsOf(tasks[t])[1].call = "send_video"

\* C7: with format key mp3 and the .mp3 sibling of the library filename present,
\* the file sent ends in .mp3 and goes through send_audio, whatever the library
\* filename.
C7_Mp3SentAsAudio ==
    \A t \in 1..Len(tasks) :
        LET T == tasks[t]
            F == FileCallsOf(T)
        IN  (T.format_key = "mp3" /\ T.mp3_exists /\ ReachedSend(T))
                => /\ Len(F) = 1
                   /\ F[1].call = "send_audio"
                   /\ EndsWith(F[1].arg, "mp3")
                   /\ \/ Len(T.lib_filename) = 1 /\ SubSeq(F[1].arg, 1, 1) = T.lib_filename
                      \/ /\ Len(T.lib_filename) >= 2
                         /\ Len(F[1].arg) = Len(T.lib_filename)
                         /\ \A i \in 1..(Len(F[1].arg) - 1) : F[1].arg[i] = T.lib_filename[i]

\* An mp3 run whose library filename has no dot sent its sibling.
C7_Witness ==
    \E t \in 1..Len(tasks) :
        /\ tasks[t].format_key = "mp3" /\ tasks[t].mp3_exists /\ tasks[t].sent = "ok"
        /\ Len(tasks[t].lib_filename) = 1

\* C8: a run that failed attempts the delivery of one error message, the fixed
\* 'Download failed...' text for a DownloadError and 'An error occurred:
\* <detail>' for any other exception; a run that did not fail sends none; and no
\* run ends by raising, also when that delivery fails.
C8_ErrorReporting ==
    \A t \in 1..Len(tasks) :
        LET T == tasks[t]
            E == ErrorCallsOf(T)
        IN  /\ T.pc # "raised"
            /\ T.exc = NoExc => Len(E) = 0
            /\ T.exc # NoExc =>
                 /\ Len(E) = 1
                 /\ E[1].arg = IF T.exc.cls = "DownloadError"
                               THEN [text |-> "Download failed. The video may be restricted or unavailable.",
                                     detail |-> ""]
                               ELSE [text |-> "An error occurred: {str(e)}", detail |-> T.exc.detail]
            /\ T.delivered = "failed" => T.pc = "done"
            /\ T.sent = "ok" => T.pc = "done" /\ T.exc = NoExc

\* A run returned after a DownloadError whose error message could not be delivered.
C8_Witness ==
    \E t \in 1..Len(tasks) :
        /\ tasks[t].pc = "done" /\ tasks[t].exc.cls = "DownloadError"
        /\ tasks[t].delivered = "failed"

\* C9 as stated: a failed send of the final file is not retried and no message
\* is sent to the user because of it.
C9_SendFailureLoggedOnly ==
    \A t \in 1..Len(tasks) :
        tasks[t].sent = "failed"
            => Len(FileCallsOf(tasks[t])) = 1 /\ Len(ErrorCallsOf(tasks[t])) = 0

\* C9 amended: a failed send of the final file is not retried, and it is
\* reported like any other exception: one 'An error occurred: <detail>' message
\* is attempted, and the run returns without raising.
C9_SendFailureReported ==
    \A t \in 1..Len(tasks) :
        LET T == tasks[t]
            E == ErrorCallsOf(T)
        IN  T.sent = "failed"
                => /\ Len(FileCallsOf(T)) = 1
                   /\ Len(E) = 1
                   /\ E[1].arg = [text |-> "An error occurred: {str(e)}", detail |-> "send"]
                   /\ T.pc \in {"await_error", "done"}

\* A run whose file send failed returned after its error message was delivered.
C9_Witness ==
    \E t \in 1..Len(tasks) :
        tasks[t].sent = "failed" /\ tasks[t].pc = "done" /\ tasks[t].delivered = "ok"

\* C10: while the library call of an orchestration is running, an inbound event
\* (a URL submission) can be handled; and no format_button waits for a download.
C10_RouterResponsive ==
    (\E t \in 1..Len(tasks) : tasks[t].pc = "in_library")
        => ENABLED (\E u \in Users, text \in Texts : HandleMessage(u, text))

\* C11: a task keeps the user_id, url and format_key it was created with, and
\* uses them for the library call, the options and the file it sends, whatever
\* the session of its user has become (replaced by a later submission, or
\* removed).
C11_InFlightUnaffected ==
    /\ [](\A t \in 1..Len(tasks) :
            LET T == tasks[t] IN
            /\ T.pc # "scheduled" =>
                 /\ T.lib_url = T.url
                 /\ T.ydl_format = (IF T.format_key = "mp3" THEN "bestaudio/best" ELSE T.format_key)
                 /\ T.postprocessors = (T.format_key = "mp3")
            /\ T.filename # <<>> =>
                 T.filename = (IF T.format_key = "mp3" /\ T.mp3_exists
                               THEN Append(SubSeq(T.lib_filename, 1, Len(T.lib_filename) - 1), "mp3")
                               ELSE T.lib_filename)
            /\ \A i \in 1..Len(T.calls) : T.calls[i].call \in FileCalls => T.calls[i].arg = T.filename)
    /\ [][\A t \in 1..Len(tasks) :
            /\ tasks'[t].user_id = tasks[t].user_id
            /\ tasks'[t].url = tasks[t].url
            /\ tasks'[t].format_key = tasks[t].format_key]_vars

\* A download started for one URL with key mp3 sent its file while the session
\* of its user held another URL with no format chosen.
C11_Witness ==
    \E t \in 1..Len(tasks) :
        /\ tasks[t].pc = "await_send" /\ tasks[t].format_key = "mp3"
        /\ tasks[t].user_id \in DOMAIN user_sessions
        /\ user_sessions[tasks[t].user_id].url # tasks[t].url
        /\ user_sessions[tasks[t].user_id].format = Missing

ValidChannels == {args[1] : args \in {a \in ArgLists : a # <<>> /\ StartsWithAt(a[1])}}

\* The channel a read (getchannel, start, the membership check) yields in the
\* state given, for every outcome of the write the read may make.
ReadsYield(file, defaults, channel) ==
    \A w \in SaveOutcomes : RequiredChannelOf(LoadConfig(file, defaults, w).config) = channel

\* C13: a dict with the key required_channel that save_config writes
\* successfully is what load_config returns next; after an admin's setchannel
\* with channel c whose write succeeds, load_config returns the dict that was
\* saved and every read yields c; the same for the DEFAULT_CONFIG that
\* load_config itself writes when the file is absent.
C13_RoundTrip ==
    [][/\ \A c \in {d \in StoredDicts : "required_channel" \in DOMAIN d}, w \in SaveOutcomes :
            LoadConfig(SaveConfig(config_file, c, "ok"), default_config, w).config = c
       /\ \A u \in ADMIN_IDS, ch \in ValidChannels, w1 \in SaveOutcomes :
            SetChannelCommand(u, <<ch>>, w1, "ok") =>
                LET saved == Put(LoadConfig(config_file, default_config, w1).config,
                                 "required_channel", ch) IN
                /\ \A w \in SaveOutcomes :
                      LoadConfig(config_file', default_config', w).config = saved
                /\ ReadsYield(config_file', default_config', ch)
       /\ (config_file.state = "absent" /\ config_file'.state = "json"
             /\ default_config' = default_config) =>
                \A w \in SaveOutcomes :
                    LoadConfig(config_file', default_config', w).config = default_config
      ]_vars

\* setchannel @bar has succeeded on a stored object that has another key, and
\* the file holds both.
C13_Witness ==
    /\ last_reply = ChannelSetReply(ChBar)
    /\ config_file.state = "json"
    /\ DOMAIN config_file.content = {"required_channel", "owner"}
    /\ config_file.content["required_channel"] = ChBar

\* C14: when the write of save_config fails during an admin's setchannel with
\* channel c, every read made afterwards yields c.
C14_FailedWriteKeepsChannel ==
    [][\A u \in ADMIN_IDS, ch \in ValidChannels, w1 \in SaveOutcomes,
          w2 \in SaveOutcomes \ {"ok"} :
            SetChannelCommand(u, <<ch>>, w1, w2) =>
                /\ last_reply' = ChannelSetReply(ch)
                /\ ReadsYield(config_file', default_config', ch)
      ]_vars

\* C20: DEFAULT_CONFIG is never changed: after any sequence of loads, saves and
\* setchannel commands it is the dict built at start-up, so the value
\* load_config backfills or substitutes is the start-up default.
C20_DefaultsReadOnly ==
    /\ default_config = DEFAULT_CONFIG
    /\ config_file.state # "json" => ReadsYield(config_file, default_config, REQUIRED_CHANNEL)

\* C15: no call of the hook lets an exception out, whatever the percent string
\* of a 'downloading' event and whether or not the chat call of a 'downloading'
\* or 'finished' event fails; a percent string from which the bar cannot be
\* built (float() or int() raises) gives the plain text, any other the bar.
C15_HookNeverRaises ==
    /\ hook_exc = NoHookExc
    /\ \A i \in 1..Len(emits) :
          emits[i].on = "downloading" =>
              /\ emits[i].text.tpl \in {"plain", "bar"}
              /\ emits[i].text.tpl = "plain" <=> emits[i].text.percent \in {"", "nan"}
              /\ emits[i].text.tpl = "bar" =>
                    emits[i].text.filled + emits[i].text.empty >= 20

\* An out-of-range percent was sent as a bar, a 'nan' percent was rendered as
\* plain text in an edit that failed, and the edit of 'finished' failed too.
C15_Witness ==
    /\ hook_exc = NoHookExc
    /\ \E i, j, k \in 1..Len(emits) :
          /\ emits[i].text.percent = "150.0%" /\ emits[i].text.tpl = "bar"
          /\ emits[j].text.percent = "nan" /\ emits[j].text.tpl = "plain" /\ ~emits[j].ok
          /\ emits[k].on = "finished" /\ ~emits[k].ok

DownloadingEmits == {i \in 1..Len(emits) : emits[i].on = "downloading"}
LastDownloadingEmit == emits[CHOOSE i \in DownloadingEmits : \A j \in DownloadingEmits : j <= i]

\* Whether the hook would emit the 'downloading' event d in this state.
WouldEmit(d) == ENABLED HookEmit(d, TRUE)

\* C16: the window is measured from the last emitted update: a 'downloading'
\* event is suppressed only if less than 2 seconds passed since the last
\* emission or its text equals the last emitted text; an event at least 2
\* seconds after the last emission with another text is emitted.
C16_WindowFromLastEmission ==
    \A d \in DownloadingEvents :
        (/\ Len(emits) < MaxEmits
         /\ DownloadingEmits # {}
         /\ now - LastDownloadingEmit.at >= ThrottleSeconds
         /\ Render(d) # LastDownloadingEmit.text) => WouldEmit(d)

\* C16, amended: the window is measured from the last 'downloading' event that
\* got past the rate limit, emitted or not: that time is never before the last
\* emission, and an event is emitted exactly when at least 2 seconds passed
\* since it and its text differs from the last emitted text.
C16_WindowFromLastPassed ==
    /\ DownloadingEmits # {} => last_update >= LastDownloadingEmit.at
    /\ DownloadingEmits = {} => last_progress_text = NoText
    /\ \A d \in DownloadingEvents :
          Len(emits) < MaxEmits =>
              (WouldEmit(d) <=>
                  /\ now - last_update >= ThrottleSeconds
                  /\ Render(d) # (IF DownloadingEmits = {} THEN NoText
                                  ELSE LastDownloadingEmit.text))

\* An event with the text already shown got past the rate limit after an
\* emission, and now an event with another text is suppressed although the
\* last emission is 2 seconds or more ago.
C16_Witness ==
    /\ DownloadingEmits # {}
    /\ Len(emits) < MaxEmits
    /\ last_update > LastDownloadingEmit.at
    /\ now - LastDownloadingEmit.at >= ThrottleSeconds
    /\ \E d \in DownloadingEvents :
          Render(d) # LastDownloadingEmit.text /\ ~WouldEmit(d)

CreatedBefore(i) == {j \in 1..(i - 1) : emits[j].via = "send" /\ emits[j].ok}

\* C17: the first emission sends a new status message and every later emission,
\* the 'finished' one included, edits it.
C17_FirstSendsLaterEdit ==
    \A i \in 1..Len(emits) : emits[i].via = (IF i = 1 THEN "send" ELSE "edit")

\* C17, amended: an emission sends a new status message as long as no send has
\* succeeded, and the first send that succeeds records the handle; every later
\* emission, the 'finished' one included, edits that message. At most one
\* status message is created, the handle never changes once set, and a
\* 'finished' event with no handle emits nothing.
C17_OneStatusMessage ==
    /\ [](/\ \A i \in 1..Len(emits) :
               /\ emits[i].via = "send" <=> CreatedBefore(i) = {}
               /\ emits[i].via = "edit" =>
                     \E j \in CreatedBefore(i) : emits[i].msg = emits[j].msg
               /\ emits[i].on = "finished" => emits[i].via = "edit"
          /\ Cardinality(CreatedBefore(Len(emits) + 1)) <= 1
          /\ message_id # NoneId <=> CreatedBefore(Len(emits) + 1) # {}
          /\ message_id = NoneId => \A ok \in BOOLEAN : ~ENABLED HookFinished(ok))
    /\ [][message_id # NoneId => message_id' = message_id]_vars

\* A first send failed, the next emission sent again and succeeded, and the
\* 'finished' event edited the message so created.
C17_Witness ==
    /\ Len(emits) = 3
    /\ emits[1].via = "send" /\ ~emits[1].ok
    /\ emits[2].via = "send" /\ emits[2].ok
    /\ emits[3].on = "finished" /\ emits[3].msg = emits[2].msg
    /\ message_id = emits[2].msg

\* The tasks that return in this step.
Returning == {t \in 1..Len(tasks) : tasks[t].pc \notin Returned /\ tasks'[t].pc \in Returned}

\* C18: a session entry is removed only by the download started from the
\* submission that created it: the task whose return removes the entry of a
\* user was started with the URL the entry holds and the format chosen in it.
C18_SessionOwnership ==
    [][\A u \in DOMAIN user_sessions :
          u \notin DOMAIN user_sessions' =>
              \E t \in Returning :
                  /\ tasks[t].user_id = u
                  /\ tasks[t].url = user_sessions[u].url
                  /\ tasks[t].format_key = user_sessions[u].format
      ]_vars

\* C19: a session with a format chosen has its download started or about to
\* be started: a format_button at its acknowledgement, or a task that has not
\* returned, holds the user, URL and format of the session.
C19_NoStuckSession ==
    \A u \in DOMAIN user_sessions :
        user_sessions[u].format # Missing =>
            \/ \E p \in pending :
                  /\ p.user_id = u /\ p.url = user_sessions[u].url
                  /\ p.format_key = user_sessions[u].format
            \/ \E t \in 1..Len(tasks) :
                  /\ tasks[t].pc \notin Returned
                  /\ tasks[t].user_id = u /\ tasks[t].url = user_sessions[u].url
                  /\ tasks[t].format_key = user_sessions[u].format
====
